---- MODULE Spec2Model ----
(***************************************************************************)
(* Model of google_suggestion_crawler.py: class SuggestionWorker.           *)
(* A shared FIFO queue of (query, depth) tasks, num_workers worker threads  *)
(* running SuggestionWorker.worker, and the coordinator thread running      *)
(* SuggestionWorker.run (with cleanup on KeyboardInterrupt).                *)
(*                                                                         *)
(* Strings are sequences of one-character strings.  Timeouts (queue.get,    *)
(* Thread.join) are modelled without a clock: a timeout may elapse whenever *)
(* the blocking condition holds.  The interpreter exit after main() returns *)
(* is outside the model: worker threads keep running after run() is done.   *)
(***************************************************************************)
EXTENDS Integers, Sequences, FiniteSets, TLC

(***************************************************************************)
(* Configuration and bounds                                                *)
(***************************************************************************)
\* num_workers=2 as main() constructs the crawler
NumWorkers == 2

\* max_depth of the runs of the model
MaxDepth == 2

\* largest number of failures (failed lookups, raised exceptions) in a run
MaxFaults == 1

(***************************************************************************)
(* Strings                                                                 *)
(***************************************************************************)
\* str.lower() on one character of the model's alphabet
LowerChar(c) ==
    IF c = "A" THEN "a" ELSE IF c = "B" THEN "b" ELSE IF c = "C" THEN "c" ELSE c

\* str.lower()
Lower(s) == [i \in 1..Len(s) |-> LowerChar(s[i])]

\* Python's  sub in s  on strings
Contains(sub, s) ==
    \E i \in 0..(Len(s) - Len(sub)) : SubSeq(s, i + 1, i + Len(sub)) = sub

\* the (None, 0) stop signal's query
None == <<"None">>

\* keywords the operator may type at the prompt
Keywords == { <<"A", "b">>, <<"a", "b">> }

kAB == <<"a", "b">>
s1 == <<"A", "b", "c">>
s2 == <<"c", "a", "B">>
s3 == <<"c", "b">>
s4 == <<"a", "c", "b">>
s5 == <<"a", "b", "b">>
s6 == <<"a", "b", "a">>
s7 == <<"B", "a", "b">>

\* every string the provider can return
Universe == {kAB, s1, s2, s3, s4, s5, s6, s7}

\* The suggestion endpoint: the <suggestion data=...> values of the reply to
\* a query, in order, before the keyword filter.  A reply may repeat a
\* string, may contain the query itself and strings without the keyword, and
\* two replies may share a string.
ProviderA(q) ==
    IF q = kAB THEN <<kAB, s1, s3, s1, s2>>
    ELSE IF q = s1 THEN <<s2, s5>>
    ELSE IF q = s2 THEN <<s5, s4>>
    ELSE IF q = s5 THEN <<s6>>
    ELSE IF q = s6 THEN <<s7>>
    ELSE <<>>

\* An endpoint whose replies contain only strings without the keyword and
\* the query itself.
ProviderB(q) ==
    IF q = kAB THEN <<s3, kAB, s4>>
    ELSE <<>>

\* An endpoint with a string (s6) that is two lookups away from the seed
\* through s2 and three lookups away through s1 and s5.
ProviderC(q) ==
    IF q = kAB THEN <<s1, s2>>
    ELSE IF q = s1 THEN <<s5>>
    ELSE IF q = s5 THEN <<s6>>
    ELSE IF q = s2 THEN <<s6>>
    ELSE IF q = s6 THEN <<s7>>
    ELSE <<>>

Providers == {"A", "B"}

Reply(p, q) ==
    IF p = "A" THEN ProviderA(q)
    ELSE IF p = "B" THEN ProviderB(q)
    ELSE ProviderC(q)

KeepMatching_Unfiltered(kw, s) == TRUE

\* [s for s in suggestions if self.main_keyword in s.lower()]
KeepMatching(kw, s) == Contains(kw, Lower(s))

RECURSIVE Filter(_, _)
Filter(kw, ss) ==
    IF ss = <<>> THEN <<>>
    ELSE IF KeepMatching(kw, Head(ss))
         THEN <<Head(ss)>> \o Filter(kw, Tail(ss))
         ELSE Filter(kw, Tail(ss))

Range(f) == { f[i] : i \in DOMAIN f }

VARIABLES
    main_keyword,       \* self.main_keyword
    num_workers,        \* self.num_workers
    max_depth,          \* self.max_depth
    provider,           \* which endpoint behaviour this run talks to
    queue,              \* self.queue: items not yet dequeued
    unfinished,         \* self.queue.unfinished_tasks
    results,            \* self.results
    processed_queries,  \* self.processed_queries
    sink,               \* lines appended to self.output_file after the header
    lock,               \* self.lock: 0 when free, else the holding worker
    shutdown_flag,      \* self.shutdown_flag
    pc,                 \* per worker: position in worker()
    task,               \* per worker: the (query, depth) it dequeued
    suggestions,        \* per worker: candidates not yet iterated over
    cpc,                \* position of the coordinator in run()/cleanup()
    reported,           \* the count printed by the summary, -1 before it
    interrupted,        \* a KeyboardInterrupt was delivered to run()
    fetches,            \* history: number of lookups invoked per query
    fetchedDepths,      \* history: depths of the tasks a lookup was invoked for
    pushes,             \* history: number of child tasks pushed per string
    faults,             \* history: number of failures injected so far
    failed,             \* history: per worker, the lookup of its task failed
    acksAfterFlag       \* history: per worker, task_done() calls, flag set

vars == <<main_keyword, num_workers, max_depth, provider, queue, unfinished,
          results, processed_queries, sink, lock, shutdown_flag, pc, task,
          suggestions, cpc, reported, interrupted, fetches, fetchedDepths,
          pushes, faults, failed, acksAfterFlag>>

config == <<main_keyword, num_workers, max_depth, provider>>

Workers == 1..num_workers

NoTask == [query |-> None, depth |-> -1]

Item(q, d) == [query |-> q, depth |-> d]

\* the crawler as constructed for an endpoint of ps with max_depth d
InitWith(ps, d) ==
    /\ main_keyword \in { Lower(k) : k \in Keywords }
    /\ num_workers \in 1..NumWorkers
    /\ max_depth = d
    /\ provider \in ps
    /\ queue = <<>>
    /\ unfinished = 0
    /\ results = {}
    /\ processed_queries = {}
    /\ sink = <<>>
    /\ lock = 0
    /\ shutdown_flag = FALSE
    /\ pc = [w \in 1..num_workers |-> "new"]
    /\ task = [w \in 1..num_workers |-> NoTask]
    /\ suggestions = [w \in 1..num_workers |-> <<>>]
    /\ cpc = "start"
    /\ reported = -1
    /\ interrupted = FALSE
    /\ fetches = [s \in Universe |-> 0]
    /\ fetchedDepths = {}
    /\ pushes = [s \in Universe |-> 0]
    /\ faults = 0
    /\ failed = [w \in 1..num_workers |-> FALSE]
    /\ acksAfterFlag = [w \in 1..num_workers |-> 0]

Init == InitWith(Providers, MaxDepth)


(***************************************************************************)
(* Helpers of the worker loop                                              *)
(***************************************************************************)
\* query is None                                    (line 113, line 115)
IsStopSignal(t) == t.query = None

AlreadyProcessed_Unchecked(q) == FALSE

\* query in self.processed_queries                  (line 113)
AlreadyProcessed(q) == q \in processed_queries

DepthLimited_OffByOne(d) == d > max_depth

\* depth >= self.max_depth                          (line 120)
DepthLimited(d) == d >= max_depth

\* suggestion not in self.results                   (line 131)
IsNew(s) == s \notin results

\* self.queue.put(item): the item joins the tail, unfinished_tasks grows
Put(q, item) == Append(q, item)

StopSignals_OneShort(n) == [i \in 1..(n - 1) |-> Item(None, 0)]

\* the num_workers (None, 0) items of lines 167-169 and 214-215
StopSignals(n) == [i \in 1..n |-> Item(None, 0)]

\* self.queue.task_done() on unfinished_tasks
TaskDoneCount(n) == n - 1

HandlerTaskDone_Missing(n) == n

\* the generic handler's self.queue.task_done()     (line 144)
HandlerTaskDone(n) == TaskDoneCount(n)

DrainTaskDone_Missing(n) == n

\* the drain loop's self.queue.task_done()          (line 162)
DrainTaskDone(n) == TaskDoneCount(n)

ExitOnRaise_Leak(w, l) == l

\* the with block's exit when an exception leaves it: the lock held by w is
\* released                                          (line 129)
ExitOnRaise(w, l) == IF l = w THEN 0 ELSE l

FlagSeen_Ignored == FALSE

\* the loop test's reading of self.shutdown_flag     (line 108)
FlagSeen == shutdown_flag

FailedLookup_Echo(q) == <<q>>

\* except RequestException / ParseError: return []  (lines 92-97)
FailedLookup(q) == <<>>

ExitOnReturn_Leak(w, l) == l

\* the with block's exit after the for loop: the lock held by w is released
\* (lines 129-134)
ExitOnReturn(w, l) == IF l = w THEN 0 ELSE l

Drained_QueueEmpty == queue = <<>>

\* the condition self.queue.join() waits for        (line 210)
Drained == unfinished = 0

\* the history of a task_done() call of worker w
Acked(w) ==
    acksAfterFlag' = [acksAfterFlag EXCEPT ![w] =
                         IF shutdown_flag THEN @ + 1 ELSE @]

(***************************************************************************)
(* SuggestionWorker.worker                                                 *)
(***************************************************************************)
\* while not self.shutdown_flag                     (line 108)
WorkerLoop(w) ==
    /\ pc[w] = "loop"
    /\ pc' = [pc EXCEPT ![w] = IF FlagSeen THEN "stopped" ELSE "get"]
    /\ UNCHANGED <<config, queue, unfinished, results, processed_queries,
                   sink, lock, shutdown_flag, task, suggestions, cpc,
                   reported, interrupted, fetches, fetchedDepths, pushes,
                   faults, failed, acksAfterFlag>>

\* self.queue.get(timeout=...) returns an item      (line 110)
Dequeue(w) ==
    /\ pc[w] = "get"
    /\ queue # <<>>
    /\ task' = [task EXCEPT ![w] = Head(queue)]
    /\ queue' = Tail(queue)
    /\ pc' = [pc EXCEPT ![w] = "check"]
    /\ UNCHANGED <<config, unfinished, results, processed_queries, sink, lock,
                   shutdown_flag, suggestions, cpc, reported, interrupted,
                   fetches, fetchedDepths, pushes, faults, failed,
                   acksAfterFlag>>

\* self.queue.get(timeout=...) raises Empty         (line 110, line 139)
Timeout(w) ==
    /\ pc[w] = "get"
    /\ queue = <<>>
    /\ pc' = [pc EXCEPT ![w] = "empty"]
    /\ UNCHANGED <<config, queue, unfinished, results, processed_queries,
                   sink, lock, shutdown_flag, task, suggestions, cpc,
                   reported, interrupted, fetches, fetchedDepths, pushes,
                   faults, failed, acksAfterFlag>>

\* if self.queue.empty() or self.shutdown_flag: break   (lines 140-141)
EmptyCheck(w) ==
    /\ pc[w] = "empty"
    /\ pc' = [pc EXCEPT ![w] =
                 IF queue = <<>> \/ shutdown_flag THEN "stopped" ELSE "loop"]
    /\ UNCHANGED <<config, queue, unfinished, results, processed_queries,
                   sink, lock, shutdown_flag, task, suggestions, cpc,
                   reported, interrupted, fetches, fetchedDepths, pushes,
                   faults, failed, acksAfterFlag>>

\* query is None: task_done(); break                (lines 113-116)
StopSignal(w) ==
    /\ pc[w] = "check"
    /\ IsStopSignal(task[w])
    /\ unfinished' = TaskDoneCount(unfinished)
    /\ Acked(w)
    /\ pc' = [pc EXCEPT ![w] = "stopped"]
    /\ task' = [task EXCEPT ![w] = NoTask]
    /\ UNCHANGED <<config, queue, results, processed_queries, sink, lock,
                   shutdown_flag, suggestions, cpc, reported, interrupted,
                   fetches, fetchedDepths, pushes, faults, failed>>

\* query in self.processed_queries: task_done(); continue   (lines 113-117)
SkipProcessed(w) ==
    /\ pc[w] = "check"
    /\ ~IsStopSignal(task[w])
    /\ AlreadyProcessed(task[w].query)
    /\ unfinished' = TaskDoneCount(unfinished)
    /\ Acked(w)
    /\ pc' = [pc EXCEPT ![w] = "loop"]
    /\ task' = [task EXCEPT ![w] = NoTask]
    /\ UNCHANGED <<config, queue, results, processed_queries, sink, lock,
                   shutdown_flag, suggestions, cpc, reported, interrupted,
                   fetches, fetchedDepths, pushes, faults, failed>>

\* depth >= self.max_depth: task_done(); continue   (lines 120-122)
DepthDiscard(w) ==
    /\ pc[w] = "check"
    /\ ~IsStopSignal(task[w])
    /\ ~AlreadyProcessed(task[w].query)
    /\ DepthLimited(task[w].depth)
    /\ unfinished' = TaskDoneCount(unfinished)
    /\ Acked(w)
    /\ pc' = [pc EXCEPT ![w] = "loop"]
    /\ task' = [task EXCEPT ![w] = NoTask]
    /\ UNCHANGED <<config, queue, results, processed_queries, sink, lock,
                   shutdown_flag, suggestions, cpc, reported, interrupted,
                   fetches, fetchedDepths, pushes, faults, failed>>

\* both tests passed: fall through to line 124
Accept(w) ==
    /\ pc[w] = "check"
    /\ ~IsStopSignal(task[w])
    /\ ~AlreadyProcessed(task[w].query)
    /\ ~DepthLimited(task[w].depth)
    /\ pc' = [pc EXCEPT ![w] = "mark"]
    /\ UNCHANGED <<config, queue, unfinished, results, processed_queries,
                   sink, lock, shutdown_flag, task, suggestions, cpc,
                   reported, interrupted, fetches, fetchedDepths, pushes,
                   faults, failed, acksAfterFlag>>

\* self.processed_queries.add(query)                (line 125)
MarkProcessed(w) ==
    /\ pc[w] = "mark"
    /\ processed_queries' = processed_queries \cup {task[w].query}
    /\ pc' = [pc EXCEPT ![w] = "fetch"]
    /\ UNCHANGED <<config, queue, unfinished, results, sink, lock,
                   shutdown_flag, task, suggestions, cpc, reported,
                   interrupted, fetches, fetchedDepths, pushes, faults,
                   failed, acksAfterFlag>>

\* the history of a call of get_suggestions(query)  (line 126)
Invoked(w) ==
    /\ fetches' = [fetches EXCEPT ![task[w].query] = @ + 1]
    /\ fetchedDepths' = fetchedDepths \cup {task[w].depth}

\* get_suggestions returns the filtered reply       (lines 78-90)
FetchOk(w) ==
    /\ pc[w] = "fetch"
    /\ Invoked(w)
    /\ suggestions' = [suggestions EXCEPT ![w] =
                          Filter(main_keyword, Reply(provider, task[w].query))]
    /\ pc' = [pc EXCEPT ![w] = "lock"]
    /\ UNCHANGED <<config, queue, unfinished, results, processed_queries,
                   sink, lock, shutdown_flag, task, cpc, reported,
                   interrupted, pushes, faults, failed, acksAfterFlag>>

\* RequestException or ParseError: get_suggestions returns []   (lines 92-97)
FetchFailed(w) ==
    /\ pc[w] = "fetch"
    /\ faults < MaxFaults
    /\ faults' = faults + 1
    /\ Invoked(w)
    /\ suggestions' = [suggestions EXCEPT ![w] = FailedLookup(task[w].query)]
    /\ failed' = [failed EXCEPT ![w] = TRUE]
    /\ pc' = [pc EXCEPT ![w] = "lock"]
    /\ UNCHANGED <<config, queue, unfinished, results, processed_queries,
                   sink, lock, shutdown_flag, task, cpc, reported,
                   interrupted, pushes, acksAfterFlag>>

\* any other exception leaves get_suggestions (a <suggestion> without a data
\* attribute makes s.lower() raise AttributeError at line 90)
FetchRaises(w) ==
    /\ pc[w] = "fetch"
    /\ Invoked(w)
    /\ faults < MaxFaults
    /\ faults' = faults + 1
    /\ pc' = [pc EXCEPT ![w] = "except"]
    /\ UNCHANGED <<config, queue, unfinished, results, processed_queries,
                   sink, lock, shutdown_flag, task, suggestions, cpc,
                   reported, interrupted, pushes, failed, acksAfterFlag>>

\* with self.lock: acquired                         (line 129)
Acquire(w) ==
    /\ pc[w] = "lock"
    /\ lock = 0
    /\ lock' = w
    /\ pc' = [pc EXCEPT ![w] = "rec"]
    /\ UNCHANGED <<config, queue, unfinished, results, processed_queries,
                   sink, shutdown_flag, task, suggestions, cpc, reported,
                   interrupted, fetches, fetchedDepths, pushes, faults,
                   failed, acksAfterFlag>>

\* one iteration of the for loop, suggestion already in results  (130-131)
RecordSeen(w) ==
    /\ pc[w] = "rec"
    /\ suggestions[w] # <<>>
    /\ ~IsNew(Head(suggestions[w]))
    /\ suggestions' = [suggestions EXCEPT ![w] = Tail(@)]
    /\ UNCHANGED <<config, queue, unfinished, results, processed_queries,
                   sink, lock, shutdown_flag, task, pc, cpc, reported,
                   interrupted, fetches, fetchedDepths, pushes, faults,
                   failed, acksAfterFlag>>

\* one iteration of the for loop, new suggestion: add, save, put (130-134)
RecordNew(w) ==
    /\ pc[w] = "rec"
    /\ suggestions[w] # <<>>
    /\ IsNew(Head(suggestions[w]))
    /\ LET s == Head(suggestions[w]) IN
        /\ results' = results \cup {s}
        /\ sink' = Append(sink, s)
        /\ queue' = Put(queue, Item(s, task[w].depth + 1))
        /\ unfinished' = unfinished + 1
        /\ pushes' = [pushes EXCEPT ![s] = @ + 1]
    /\ suggestions' = [suggestions EXCEPT ![w] = Tail(@)]
    /\ UNCHANGED <<config, processed_queries, lock, shutdown_flag, task, pc,
                   cpc, reported, interrupted, fetches, fetchedDepths, faults,
                   failed, acksAfterFlag>>

\* new suggestion, open()/write() of save_suggestion raises: the string is in
\* results, no line is written, no child is put; the with block releases the
\* lock on the way to the handler                    (lines 132-133, 101-102)
RecordSaveRaises(w) ==
    /\ pc[w] = "rec"
    /\ suggestions[w] # <<>>
    /\ IsNew(Head(suggestions[w]))
    /\ results' = results \cup {Head(suggestions[w])}
    /\ lock' = ExitOnRaise(w, lock)
    /\ faults < MaxFaults
    /\ faults' = faults + 1
    /\ pc' = [pc EXCEPT ![w] = "except"]
    /\ UNCHANGED <<config, queue, unfinished, processed_queries, sink,
                   shutdown_flag, task, suggestions, cpc, reported,
                   interrupted, fetches, fetchedDepths, pushes, failed,
                   acksAfterFlag>>

\* new suggestion, the line is written and pbar.update(1) raises: the string
\* is in results and in the file, no child is put    (lines 132-133, 103-104)
RecordProgressRaises(w) ==
    /\ pc[w] = "rec"
    /\ suggestions[w] # <<>>
    /\ IsNew(Head(suggestions[w]))
    /\ results' = results \cup {Head(suggestions[w])}
    /\ sink' = Append(sink, Head(suggestions[w]))
    /\ lock' = ExitOnRaise(w, lock)
    /\ faults < MaxFaults
    /\ faults' = faults + 1
    /\ pc' = [pc EXCEPT ![w] = "except"]
    /\ UNCHANGED <<config, queue, unfinished, processed_queries,
                   shutdown_flag, task, suggestions, cpc, reported,
                   interrupted, fetches, fetchedDepths, pushes, failed,
                   acksAfterFlag>>

\* the for loop is over: the with block releases the lock; time.sleep
\* (lines 134-136)
Release(w) ==
    /\ pc[w] = "rec"
    /\ suggestions[w] = <<>>
    /\ lock' = ExitOnReturn(w, lock)
    /\ pc' = [pc EXCEPT ![w] = "ack"]
    /\ UNCHANGED <<config, queue, unfinished, results, processed_queries,
                   sink, shutdown_flag, task, suggestions, cpc, reported,
                   interrupted, fetches, fetchedDepths, pushes, faults,
                   failed, acksAfterFlag>>

\* self.queue.task_done()                           (line 137)
TaskDone(w) ==
    /\ pc[w] = "ack"
    /\ unfinished' = TaskDoneCount(unfinished)
    /\ Acked(w)
    /\ pc' = [pc EXCEPT ![w] = "loop"]
    /\ task' = [task EXCEPT ![w] = NoTask]
    /\ failed' = [failed EXCEPT ![w] = FALSE]
    /\ UNCHANGED <<config, queue, results, processed_queries, sink, lock,
                   shutdown_flag, suggestions, cpc, reported, interrupted,
                   fetches, fetchedDepths, pushes, faults>>

\* except Exception: print; self.queue.task_done()  (lines 142-144)
Except(w) ==
    /\ pc[w] = "except"
    /\ unfinished' = HandlerTaskDone(unfinished)
    /\ Acked(w)
    /\ failed' = [failed EXCEPT ![w] = FALSE]
    /\ suggestions' = [suggestions EXCEPT ![w] = <<>>]
    /\ pc' = [pc EXCEPT ![w] = "loop"]
    /\ task' = [task EXCEPT ![w] = NoTask]
    /\ UNCHANGED <<config, queue, results, processed_queries, sink, lock,
                   shutdown_flag, cpc, reported, interrupted, fetches,
                   fetchedDepths, pushes, faults>>

(***************************************************************************)
(* SuggestionWorker.run and SuggestionWorker.cleanup (the coordinator)      *)
(***************************************************************************)
\* put the seed at depth 0 and start the worker threads   (lines 183-207)
RunStart ==
    /\ cpc = "start"
    /\ queue' = Put(queue, Item(main_keyword, 0))
    /\ unfinished' = unfinished + 1
    /\ pc' = [w \in Workers |-> "loop"]
    /\ cpc' = "join"
    /\ UNCHANGED <<config, results, processed_queries, sink, lock,
                   shutdown_flag, task, suggestions, reported, interrupted,
                   fetches, fetchedDepths, pushes, faults, failed,
                   acksAfterFlag>>

\* self.queue.join() returns: unfinished_tasks is 0; time.sleep(2)
\* (lines 210-211)
JoinReturn ==
    /\ cpc = "join"
    /\ Drained
    /\ cpc' = "signal"
    /\ UNCHANGED <<config, queue, unfinished, results, processed_queries,
                   sink, lock, shutdown_flag, pc, task, suggestions, reported,
                   interrupted, fetches, fetchedDepths, pushes, faults,
                   failed, acksAfterFlag>>

\* for _ in range(self.num_workers): self.queue.put((None, 0))  (214-215)
PushStopSignals ==
    /\ cpc = "signal"
    /\ queue' = queue \o StopSignals(num_workers)
    /\ unfinished' = unfinished + Len(StopSignals(num_workers))
    /\ cpc' = "join_threads"
    /\ UNCHANGED <<config, results, processed_queries, sink, lock,
                   shutdown_flag, pc, task, suggestions, reported,
                   interrupted, fetches, fetchedDepths, pushes, faults,
                   failed, acksAfterFlag>>

\* for t in threads: t.join(timeout=5): returns when the thread has exited
\* or the timeout has elapsed                        (lines 216-217)
JoinThreads ==
    /\ cpc = "join_threads"
    /\ cpc' = "summary"
    /\ UNCHANGED <<config, queue, unfinished, results, processed_queries,
                   sink, lock, shutdown_flag, pc, task, suggestions, reported,
                   interrupted, fetches, fetchedDepths, pushes, faults,
                   failed, acksAfterFlag>>

\* KeyboardInterrupt raised in the main thread inside the try block
\* (lines 209-219)
Interrupt ==
    /\ cpc \in {"join", "signal", "join_threads"}
    /\ ~interrupted
    /\ interrupted' = TRUE
    /\ cpc' = "cleanup"
    /\ UNCHANGED <<config, queue, unfinished, results, processed_queries,
                   sink, lock, shutdown_flag, pc, task, suggestions, reported,
                   fetches, fetchedDepths, pushes, faults, failed,
                   acksAfterFlag>>

\* cleanup: self.shutdown_flag = True                (line 156)
CleanupFlag ==
    /\ cpc = "cleanup"
    /\ shutdown_flag' = TRUE
    /\ cpc' = "drain"
    /\ UNCHANGED <<config, queue, unfinished, results, processed_queries,
                   sink, lock, pc, task, suggestions, reported, interrupted,
                   fetches, fetchedDepths, pushes, faults, failed,
                   acksAfterFlag>>

\* cleanup: one get_nowait(); task_done() of the drain loop  (lines 159-162)
DrainOne ==
    /\ cpc = "drain"
    /\ queue # <<>>
    /\ queue' = Tail(queue)
    /\ unfinished' = DrainTaskDone(unfinished)
    /\ UNCHANGED <<config, results, processed_queries, sink, lock,
                   shutdown_flag, pc, task, suggestions, cpc, reported,
                   interrupted, fetches, fetchedDepths, pushes, faults,
                   failed, acksAfterFlag>>

\* cleanup: the drain loop finds the queue empty     (lines 159, 163-164)
DrainDone ==
    /\ cpc = "drain"
    /\ queue = <<>>
    /\ cpc' = "cleanup_signal"
    /\ UNCHANGED <<config, queue, unfinished, results, processed_queries,
                   sink, lock, shutdown_flag, pc, task, suggestions, reported,
                   interrupted, fetches, fetchedDepths, pushes, faults,
                   failed, acksAfterFlag>>

\* cleanup: put (None, 0) once per worker            (lines 167-169)
CleanupStopSignals ==
    /\ cpc = "cleanup_signal"
    /\ queue' = queue \o StopSignals(num_workers)
    /\ unfinished' = unfinished + Len(StopSignals(num_workers))
    /\ cpc' = "cleanup_join"
    /\ UNCHANGED <<config, results, processed_queries, sink, lock,
                   shutdown_flag, pc, task, suggestions, reported,
                   interrupted, fetches, fetchedDepths, pushes, faults,
                   failed, acksAfterFlag>>

\* for t in threads: t.join(timeout=2)               (lines 223-224)
CleanupJoin ==
    /\ cpc = "cleanup_join"
    /\ cpc' = "summary"
    /\ UNCHANGED <<config, queue, unfinished, results, processed_queries,
                   sink, lock, shutdown_flag, pc, task, suggestions, reported,
                   interrupted, fetches, fetchedDepths, pushes, faults,
                   failed, acksAfterFlag>>

\* print(... len(self.results) ...)                  (line 233)
Summary ==
    /\ cpc = "summary"
    /\ reported' = Cardinality(results)
    /\ cpc' = "done"
    /\ UNCHANGED <<config, queue, unfinished, results, processed_queries,
                   sink, lock, shutdown_flag, pc, task, suggestions,
                   interrupted, fetches, fetchedDepths, pushes, faults,
                   failed, acksAfterFlag>>

(***************************************************************************)
(* Specifications                                                          *)
(***************************************************************************)
WorkerStep(w) ==
    /\ w \in Workers
    /\ \/ WorkerLoop(w) \/ Dequeue(w) \/ Timeout(w) \/ EmptyCheck(w)
       \/ StopSignal(w) \/ SkipProcessed(w) \/ DepthDiscard(w) \/ Accept(w)
       \/ MarkProcessed(w) \/ FetchOk(w) \/ FetchFailed(w) \/ FetchRaises(w)
       \/ Acquire(w) \/ RecordSeen(w) \/ RecordNew(w) \/ RecordSaveRaises(w)
       \/ RecordProgressRaises(w) \/ Release(w) \/ TaskDone(w) \/ Except(w)

\* the coordinator when no interrupt arrives
NaturalStep ==
    RunStart \/ JoinReturn \/ PushStopSignals \/ JoinThreads \/ Summary

\* the coordinator's KeyboardInterrupt handler
CleanupStep ==
    CleanupFlag \/ DrainOne \/ DrainDone \/ CleanupStopSignals \/ CleanupJoin

Next ==
    \/ \E w \in 1..NumWorkers : WorkerStep(w)
    \/ NaturalStep
    \/ Interrupt
    \/ CleanupStep

Spec == Init /\ [][Next]_vars

Fairness ==
    /\ \A w \in 1..NumWorkers : WF_vars(WorkerStep(w))
    /\ WF_vars(NaturalStep)
    /\ WF_vars(CleanupStep)

\* every thread that can run eventually runs; the interrupt may or may not come
FairSpec == Spec /\ Fairness

NextNatural ==
    \/ \E w \in 1..NumWorkers : WorkerStep(w)
    \/ NaturalStep

\* runs in which no KeyboardInterrupt arrives
NaturalSpec ==
    /\ Init
    /\ [][NextNatural]_vars
    /\ \A w \in 1..NumWorkers : WF_vars(WorkerStep(w))
    /\ WF_vars(NaturalStep)

\* a step of worker w in which no failure occurs
ReliableStep(w) == WorkerStep(w) /\ faults' = faults

NextReliable ==
    \/ \E w \in 1..NumWorkers : ReliableStep(w)
    \/ NaturalStep

\* runs against endpoint C, one level deeper, with no interrupt and no
\* failure
ReliableInit == InitWith({"C"}, MaxDepth + 1)

ReliableSpec == ReliableInit /\ [][NextReliable]_vars

TypeOK ==
    /\ unfinished \in Nat
    /\ lock \in 0..num_workers
    /\ results \subseteq Universe
    /\ processed_queries \subseteq Universe
    /\ Range(sink) \subseteq Universe

(***************************************************************************)
(* Vocabulary of the properties                                            *)
(***************************************************************************)
\* number of lines of the output file that equal s
SinkCount(s) == Cardinality({ i \in DOMAIN sink : sink[i] = s })

AllStopped == \A w \in Workers : pc[w] = "stopped"

\* positions of worker() between the dequeue and the acknowledgement of an
\* accepted task
InFlight == {"mark", "fetch", "lock", "rec", "ack", "except"}

\* kw occurs in s when letter case is ignored
MatchesIgnoringCase(kw, s) ==
    \E i \in 1..Len(s) : \E j \in i..Len(s) :
        Lower(SubSeq(s, i, j)) = Lower(kw)

\* the matching strings in the replies to the queries of Q
Children(p, kw, Q) ==
    UNION { { s \in Range(Reply(p, q)) : MatchesIgnoringCase(kw, s) } : q \in Q }

\* the matching strings at most n lookup hops away from the queries of Q
RECURSIVE Reach(_, _, _, _)
Reach(p, kw, Q, n) ==
    IF n = 0 THEN {}
    ELSE Children(p, kw, Q) \cup Reach(p, kw, Children(p, kw, Q), n - 1)

\* what a run with no interrupt and no failure persists
Expected == Reach(provider, main_keyword, {main_keyword}, max_depth)

(***************************************************************************)
(* Properties                                                              *)
(***************************************************************************)
\* C1: every string is persisted at most once and pushed as a child task at
\* most once, and every string in results (claimed) is persisted exactly
\* once and pushed exactly once.
C1_ClaimedExactlyOnce ==
    \A s \in Universe :
        /\ SinkCount(s) <= 1
        /\ pushes[s] <= 1
        /\ s \in results => (SinkCount(s) = 1 /\ pushes[s] = 1)

\* C2: the lookup is invoked at most once for any query string.
C2_FetchedAtMostOnce == \A q \in Universe : fetches[q] <= 1

\* the seed came back as a candidate, was dequeued a second time with both
\* workers alive, and its lookup has run once
C2_Witness ==
    /\ num_workers = 2
    /\ fetches[main_keyword] = 1
    /\ \E w \in Workers :
        /\ pc[w] = "check"
        /\ task[w].query = main_keyword
        /\ task[w].depth > 0
    /\ \E v \in Workers : pc[v] \in InFlight

\* C3: a lookup is only ever invoked for a task of depth < max_depth, and a
\* worker holding a task of depth >= max_depth is at the check of lines
\* 113-122 and nowhere later in the loop.
C3_DepthBound ==
    /\ \A d \in fetchedDepths : d < max_depth
    /\ \A w \in Workers : pc[w] \in InFlight => task[w].depth < max_depth

\* a string was pushed as a child, dequeued and acknowledged, and never looked
\* up nor marked processed: it was discarded at the depth limit
C3_Witness ==
    /\ ~interrupted
    /\ queue = <<>>
    /\ unfinished = 0
    /\ \E s \in results :
        /\ pushes[s] = 1
        /\ fetches[s] = 0
        /\ s \notin processed_queries

\* C4: with no interrupt, every run reaches the state in which the queue is
\* empty and every pushed task is acknowledged while the coordinator waits
\* in queue.join().
C4_Drains == <>(cpc = "join" /\ queue = <<>> /\ unfinished = 0)

\* the barrier fired after results were collected
C4_Witness == cpc = "signal" /\ results # {} /\ unfinished = 0

\* C5: on natural completion a stop signal is in the queue or in a worker's
\* hands only after queue.join() returned; a worker that stops after the
\* signals were pushed stops by dequeuing and acknowledging one; eventually
\* all workers are stopped.
C5_NaturalStop ==
    /\ [](((\E i \in DOMAIN queue : IsStopSignal(queue[i]))
            \/ (\E w \in Workers : pc[w] = "check" /\ IsStopSignal(task[w])))
          => cpc \in {"join_threads", "summary", "done"})
    /\ [][\A w \in Workers :
            (/\ cpc \in {"join_threads", "summary", "done"}
             /\ pc[w] # "stopped"
             /\ pc'[w] = "stopped")
            => (/\ pc[w] = "check"
                /\ IsStopSignal(task[w])
                /\ unfinished' = unfinished - 1)]_vars
    /\ <>[]AllStopped

\* both workers stopped on a stop signal after a run that collected results
C5_Witness ==
    /\ ~interrupted
    /\ num_workers = 2
    /\ AllStopped
    /\ cpc = "done"
    /\ results # {}
    /\ queue = <<>>
    /\ unfinished = 0

C7_ErrorIsolated ==
    [][\A w \in Workers :
        /\ (pc[w] # "except" /\ pc'[w] = "except")
            => (/\ unfinished' = unfinished
                /\ queue' = queue
                /\ lock' # w
                /\ \A v \in Workers \ {w} : pc'[v] = pc[v] /\ task'[v] = task[v])
        /\ (pc[w] = "except" /\ pc'[w] # "except")
            => (/\ unfinished' = unfinished - 1
                /\ unfinished' >= 0
                /\ queue' = queue
                /\ pc'[w] = "loop"
                /\ lock' = lock
                /\ \A v \in Workers \ {w} : pc'[v] = pc[v] /\ task'[v] = task[v])
      ]_vars

\* a recording was aborted by an exception and the barrier fired all the same
C7_Witness ==
    /\ ~interrupted
    /\ \E s \in results : SinkCount(s) = 0
    /\ cpc = "signal"
    /\ unfinished = 0

\* C8: every persisted line, every string in results, every string pushed
\* and every queued or held task contains main_keyword, letter case ignored.
C8_KeywordEverywhere ==
    /\ \A i \in DOMAIN sink : MatchesIgnoringCase(main_keyword, sink[i])
    /\ \A s \in results : MatchesIgnoringCase(main_keyword, s)
    /\ \A s \in Universe : pushes[s] > 0 => MatchesIgnoringCase(main_keyword, s)
    /\ \A i \in DOMAIN queue :
        ~IsStopSignal(queue[i]) => MatchesIgnoringCase(main_keyword, queue[i].query)

\* the seed's reply (with s3, which lacks the keyword, and s1, which has it
\* in another letter case) has been recorded
C8_Witness ==
    /\ provider = "A"
    /\ fetches[kAB] = 1
    /\ s1 \in Range(sink)
    /\ s2 \in Range(sink)
    /\ s3 \notin results

\* C9: whenever no worker is in the critical section, results equals the set
\* of persisted lines and the file has no duplicate line.
C9_SeenEqualsPersisted ==
    (\A w \in Workers : pc[w] # "rec")
        => (/\ results = Range(sink)
            /\ \A s \in Universe : SinkCount(s) <= 1)

\* C10: in an interrupted run the persisted lines are among those an
\* uninterrupted run produces, and no line occurs twice.
C10_InterruptedSubset ==
    interrupted
        => (/\ Range(sink) \subseteq Expected
            /\ \A s \in Universe : SinkCount(s) <= 1)

\* an interrupted run ended having persisted some but not all of them
C10_Witness ==
    /\ interrupted
    /\ cpc = "done"
    /\ AllStopped
    /\ sink # <<>>
    /\ Range(sink) # Expected

\* C11: a worker whose lookup failed holds an empty candidate list; while it
\* is in the critical section no line is written, nothing joins results and
\* no child is pushed; it then acknowledges the task once and is back at the
\* head of its loop, never in the handler and never stopped by the failure.
C11_FailedLookupIsEmpty ==
    [][\A w \in Workers :
        /\ failed'[w] => /\ suggestions'[w] = <<>>
                         /\ pc'[w] \in {"lock", "rec", "ack"}
        /\ (failed[w] /\ lock = w) => /\ sink' = sink
                                      /\ results' = results
                                      /\ pushes' = pushes
        /\ (failed[w] /\ ~failed'[w]) => /\ pc'[w] = "loop"
                                         /\ unfinished' = unfinished - 1]_vars

\* a lookup that would have returned candidates failed, and its worker has
\* left the critical section and is about to acknowledge the task
C11_Witness ==
    \E w \in Workers :
        /\ failed[w]
        /\ pc[w] = "ack"
        /\ Filter(main_keyword, Reply(provider, task[w].query)) # <<>>

\* worker w took the step: its position or its candidate list changed
Acts(w) == pc'[w] # pc[w] \/ suggestions'[w] # suggestions[w]

\* C12: every step that changes processed_queries, results or the output
\* file is taken by the worker that holds the lock.
C12_MutationsUnderLock ==
    [][(\/ processed_queries' # processed_queries
        \/ results' # results
        \/ sink' # sink)
            => \E w \in Workers : lock = w /\ Acts(w)]_vars

\* the part of C12 about results and the output file alone
C12_ResultsUnderLock ==
    [][(results' # results \/ sink' # sink)
            => \E w \in Workers : lock = w /\ Acts(w)]_vars

\* C13: a worker whose dequeue timed out stops, the shutdown flag not being
\* set, only when the queue is empty and every pushed task is acknowledged:
\* never while another worker holds a task it has not acknowledged.
C13_StopsOnlyWhenDrained ==
    [][\A w \in Workers :
        (pc[w] = "empty" /\ pc'[w] = "stopped" /\ ~shutdown_flag)
            => (/\ queue = <<>>
                /\ unfinished = 0
                /\ \A v \in Workers : pc[v] \notin InFlight)]_vars

\* cleanup() has returned
CleanupRan == interrupted /\ cpc \in {"cleanup_join", "summary", "done"}

\* C14: once cleanup() has run and every worker has stopped, every task ever
\* put is acknowledged: queue.join() would return.
C14_InterruptedRunDrained ==
    (CleanupRan /\ AllStopped) => Drained

\* queue.join() has returned in a run without interrupt
BarrierFired ==
    ~interrupted /\ cpc \in {"signal", "join_threads", "summary", "done"}

\* C15: a worker about to acknowledge its task has no candidate left to
\* record; queue.join() returns only when the queue is empty; after it has
\* returned in an uninterrupted run no worker is between the dequeue and the
\* acknowledgement of a task other than a stop signal, and no step writes a
\* line, adds to results or puts a child task.
C15_NothingAfterBarrier ==
    /\ [](\A w \in Workers : pc[w] = "ack" => suggestions[w] = <<>>)
    /\ [][(cpc = "join" /\ cpc' = "signal") => queue = <<>>]_vars
    /\ [](BarrierFired =>
            /\ \A w \in Workers : pc[w] \notin InFlight
            /\ \A w \in Workers : pc[w] = "check" => IsStopSignal(task[w])
            /\ \A i \in DOMAIN queue : IsStopSignal(queue[i]))
    /\ [][BarrierFired =>
            (sink' = sink /\ results' = results /\ pushes' = pushes)]_vars

\* the barrier fired after two workers recorded several strings, and a
\* worker has dequeued its stop signal
C15_Witness ==
    /\ BarrierFired
    /\ num_workers = 2
    /\ Cardinality(Range(sink)) >= 2
    /\ \E w \in Workers : pc[w] = "check" /\ IsStopSignal(task[w])

\* C16: with the shutdown flag set a worker acknowledges at most one task,
\* after that acknowledgement it is at the loop test or stopped, and it
\* invokes a lookup only if it has acknowledged nothing since the flag was
\* set: it never starts a second lookup.
C16_OneTaskAfterFlag ==
    /\ [](\A w \in Workers :
            /\ acksAfterFlag[w] <= 1
            /\ acksAfterFlag[w] = 1 => pc[w] \in {"loop", "stopped"})
    /\ [][\A w \in Workers :
            (shutdown_flag /\ pc[w] = "fetch" /\ pc'[w] # "fetch")
                => acksAfterFlag[w] = 0]_vars

\* after the flag was set one worker finished a task that recorded a string
\* and stopped, the other stopped without finishing any
C16_Witness ==
    /\ shutdown_flag
    /\ AllStopped
    /\ sink # <<>>
    /\ \E w, v \in Workers : acksAfterFlag[w] = 1 /\ acksAfterFlag[v] = 0

\* C17: the lock is held only by a worker that is iterating over the
\* candidates its lookup returned: a worker that has not yet invoked its
\* lookup, whose lookup is in progress, or that is at the pacing delay and
\* the acknowledgement, does not hold it.
C17_NoLockDuringLookup ==
    \A w \in Workers :
        /\ lock = w => pc[w] = "rec"
        /\ pc[w] \in {"mark", "fetch", "lock", "ack", "except"} => lock # w

\* one worker's lookup is in progress while the other worker is recording
C17_Witness ==
    \E w, v \in Workers : pc[w] = "fetch" /\ pc[v] = "rec" /\ lock = v

\* worker w leaves the tests of lines 113-122 holding a task at the depth
\* limit
Discards(w) ==
    /\ pc[w] = "check"
    /\ ~IsStopSignal(task[w])
    /\ task[w].depth >= max_depth
    /\ pc'[w] # "check"

\* C18 as stated: a dequeued task at the depth limit is discarded without a
\* lookup and its query is in processed_queries afterwards.
C18_DiscardedIsProcessed ==
    [][\A w \in Workers :
        Discards(w) => (/\ fetches' = fetches
                        /\ pc'[w] = "loop"
                        /\ task[w].query \in processed_queries')]_vars

\* C18: a dequeued task at the depth limit is discarded without a lookup:
\* the worker acknowledges it once and is back at the loop test, and
\* processed_queries is left as it was, so the query is not recorded in it.
C18_DiscardedNotProcessed ==
    [][\A w \in Workers :
        Discards(w) => (/\ fetches' = fetches
                        /\ pc'[w] = "loop"
                        /\ unfinished' = unfinished - 1
                        /\ processed_queries' = processed_queries)]_vars

\* every task of a run without interrupt and failure is acknowledged, and a
\* string that was put as a child was neither looked up nor marked processed
C18_Witness ==
    /\ ~interrupted
    /\ faults = 0
    /\ cpc = "join_threads"
    /\ \E s \in Universe :
        /\ pushes[s] >= 1
        /\ fetches[s] = 0
        /\ s \notin processed_queries

\* the workers that hold an item they dequeued and have not acknowledged
Holding == { w \in Workers : pc[w] \in {"check"} \cup InFlight }

\* C19: unfinished_tasks equals the number of items in the queue plus the
\* number of items dequeued and not yet acknowledged, and is never negative.
C19_UnfinishedCount ==
    /\ unfinished = Len(queue) + Cardinality(Holding)
    /\ unfinished >= 0

\* in a run with a failure and with children put, the drain loop of cleanup
\* has emptied the queue while a worker holds the one item still unacknowledged
C19_Witness ==
    /\ cpc = "cleanup_signal"
    /\ Holding # {}
    /\ faults = 1
    /\ pushes # [s \in Universe |-> 0]
    /\ unfinished = 1

\* C20: when queue.join() has returned in a run with no interrupt and no
\* failure, the persisted lines are exactly the matching strings at most
\* max_depth lookups away from the seed, whatever the number of workers and
\* the interleaving.
C20_SameResultSet ==
    BarrierFired => Range(sink) = Expected

\* the part of C20 about a single worker
C20_SingleWorker ==
    (BarrierFired /\ num_workers = 1) => Range(sink) = Expected

====
